---------------------------- MODULE Spec2Model ----------------------------
(***************************************************************************)
(* hyt-read: poll a HYT humidity/temperature sensor over Linux i2c-dev.    *)
(* State machine of src/hyt-read.c: option parsing in main, the bus        *)
(* locator (open_i2c_bus / name_file_matches / open_i2c_dev), the slave    *)
(* address parser, the write / usleep / read transaction of take_reading,  *)
(* the frame decoding and the polling loop.                                *)
(*                                                                         *)
(* C strings are sequences of one-character strings.  Floating point       *)
(* values are exact rationals [num, den] with den > 0: the bounds the      *)
(* properties compare against (0, 100, -40, 120, 125) are exactly          *)
(* representable and rounding to float is monotone, so order comparisons   *)
(* against them are the same on the rationals as on the floats.            *)
(***************************************************************************)
EXTENDS Integers, Sequences, FiniteSets, TLC

VARIABLES
    pc,         \* position of the single thread of control
    fd,         \* main: int fd
    interval,   \* main: int interval
    ptemp,      \* main: int ptemp
    phum,       \* main: int phum
    slave,      \* main: unsigned int slave
    seenB,      \* history: a -b option has been returned by getopt
    seenD,      \* history: a -d option has been returned by getopt
    seenA,      \* history: a -a option has been returned by getopt
    aarg,       \* history: optarg of the last -a option
    openFds,    \* the process's open file descriptors
    registry,   \* environment: /sys/class/i2c-dev in readdir order
    want,       \* open_i2c_bus: name (optarg of -b)
    dirfd,      \* open_i2c_bus: descriptor held by DIR *dp, -1 when none
    di,         \* open_i2c_bus: number of entries readdir has returned
    sensor,     \* environment: the frame the sensor holds after a start command
    data,       \* take_reading: the bytes the last read() stored
    r,          \* main: struct reading r
    out,        \* standard output: the lines printed
    iter,       \* history: calls of take_reading
    trace,      \* history: system calls issued
    exitCode,   \* -1 while running, else the exit status
    msg,        \* the message written to standard error ("" when none)
    usageShown  \* usage() has printed the usage text

vars == <<pc, fd, interval, ptemp, phum, slave, seenB, seenD, seenA, aarg,
          openFds,
          registry, want, dirfd, di, sensor, data, r, out, iter, trace,
          exitCode, msg, usageShown>>

---------------------------------------------------------------------------
(* Bounds of the model *)

\* iterations of the polling loop explored when the interval is positive
MaxIter == 2
\* directory entries of the bus registry
MaxEntries == 2

---------------------------------------------------------------------------
(* Program constants *)

DefaultSlave == 40          \* 0x28
MinSlave == 3               \* 0x3
MaxSlave == 119             \* 0x77
SettleMicros == 60000       \* 60 * 1000
FrameLen == 4
HumMask == 63               \* 0x3f
TempMask == 252             \* 0xfc
HumDen == 16383             \* 0x3fff
TempDen == 65532            \* 0xfffc
HumScale == 100
TempScale == 165
TempOffset == 40

SysDir == <<"/","s","y","s","/","c","l","a","s","s","/","i","2","c","-","d","e","v">>
DevDir == <<"/","d","e","v","/">>
NameLeaf == <<"/","n","a","m","e">>

---------------------------------------------------------------------------
(* C helpers *)

Min(a, b) == IF a < b THEN a ELSE b

\* bitwise and of two naturals, bit by bit
RECURSIVE BitAnd(_, _)
BitAnd(a, b) ==
    IF a = 0 \/ b = 0 THEN 0
    ELSE (IF a % 2 = 1 /\ b % 2 = 1 THEN 1 ELSE 0) + 2 * BitAnd(a \div 2, b \div 2)

\* bitwise or of two naturals, bit by bit
RECURSIVE BitOr(_, _)
BitOr(a, b) ==
    IF a = 0 THEN b
    ELSE IF b = 0 THEN a
    ELSE (IF a % 2 = 1 \/ b % 2 = 1 THEN 1 ELSE 0) + 2 * BitOr(a \div 2, b \div 2)

Shl8(a) == a * 256

\* the lowest descriptor not in use, as open() and opendir() allocate it
LowestFree(S) == CHOOSE n \in 0..(Cardinality(S) + 1) : n \notin S /\ \A m \in 0..(n-1) : m \in S

DigitChars == <<"0","1","2","3","4","5","6","7","8","9","a","b","c","d","e","f">>
UpperChars == <<"0","1","2","3","4","5","6","7","8","9","A","B","C","D","E","F">>

\* value of a digit character, 99 when it is none
DigitVal(c) ==
    IF \E k \in 1..16 : DigitChars[k] = c
    THEN (CHOOSE k \in 1..16 : DigitChars[k] = c) - 1
    ELSE IF \E k \in 1..16 : UpperChars[k] = c
    THEN (CHOOSE k \in 1..16 : UpperChars[k] = c) - 1
    ELSE 99

IsSpace(c) == c \in {" ", "\t", "\n"}

\* first index at or after i that holds no white space
RECURSIVE SkipSpace(_, _)
SkipSpace(s, i) ==
    IF i <= Len(s) /\ IsSpace(s[i]) THEN SkipSpace(s, i + 1) ELSE i

\* first index at or after i that holds no digit of the base
RECURSIVE ScanDigits(_, _, _)
ScanDigits(s, i, base) ==
    IF i <= Len(s) /\ DigitVal(s[i]) < base THEN ScanDigits(s, i + 1, base) ELSE i

\* value of the digits s[i..j-1] in the base, acc the value so far
RECURSIVE DigitsValue(_, _, _, _, _)
DigitsValue(s, i, j, base, acc) ==
    IF i >= j THEN acc
    ELSE DigitsValue(s, i + 1, j, base, acc * base + DigitVal(s[i]))

\* strtol(s, &endptr, base): n is the result and endptr the index of the
\* first character not consumed (Len(s) + 1 is the terminating NUL).
\* The strings of the model are too short to reach LONG_MAX.
Strtol(s, base) ==
    LET i0 == SkipSpace(s, 1)
        signed == i0 <= Len(s) /\ s[i0] \in {"-", "+"}
        neg == signed /\ s[i0] = "-"
        i1 == IF signed THEN i0 + 1 ELSE i0
        zero == i1 <= Len(s) /\ s[i1] = "0"
        hex == /\ base \in {0, 16}
               /\ zero
               /\ i1 + 2 <= Len(s)
               /\ s[i1 + 1] \in {"x", "X"}
               /\ DigitVal(s[i1 + 2]) < 16
        b == IF base # 0 THEN base
             ELSE IF hex THEN 16
             ELSE IF zero THEN 8
             ELSE 10
        i2 == IF hex THEN i1 + 2 ELSE i1
        end == ScanDigits(s, i2, b)
        val == DigitsValue(s, i2, end, b, 0)
    IN  IF end = i2 THEN [n |-> 0, endptr |-> 1]
        ELSE [n |-> IF neg THEN 0 - val ELSE val, endptr |-> end]

Atoi(s) == Strtol(s, 10).n

\* parse_i2c_slave_address with the upper limit off by one (n > 0x78)
ParseAcceptingOneAbove(s) ==
    LET t == Strtol(s, 0)
    IN  IF t.endptr = 1 \/ t.endptr <= Len(s)
        THEN [err |-> "bad slave address", n |-> t.n]
        ELSE IF t.n < MinSlave \/ t.n > MaxSlave + 1
        THEN [err |-> "slave address outside legal range", n |-> t.n]
        ELSE [err |-> "", n |-> t.n]

\* parse_i2c_slave_address: the exit message, or "" and the address
ParseI2cSlaveAddress(s) ==
    LET t == Strtol(s, 0)
    IN  IF t.endptr = 1 \/ t.endptr <= Len(s)
        THEN [err |-> "bad slave address", n |-> t.n]
        ELSE IF t.n < MinSlave \/ t.n > MaxSlave
        THEN [err |-> "slave address outside legal range", n |-> t.n]
        ELSE [err |-> "", n |-> t.n]

\* name_file_matches without the length test: the first len bytes decide
NameFilePrefixMatches(content, name) ==
    LET len == Len(name)
        got == Min(Len(content), len + 2)
        buf == SubSeq(content, 1, got)
    IN  got >= len /\ SubSeq(buf, 1, len) = name

\* name_file_matches, after the name file was opened: read() stores at most
\* len + 2 bytes of the file's content (a sysfs attribute is read whole)
NameFileMatches(content, name) ==
    LET len == Len(name)
        got == Min(Len(content), len + 2)
        buf == SubSeq(content, 1, got)
    IN  IF got = len \/ (got = len + 1 /\ buf[len + 1] = "\n")
        THEN SubSeq(buf, 1, len) = name
        ELSE FALSE

NameFilePath(subdir) == SysDir \o <<"/">> \o subdir \o NameLeaf

DevPath(file) == DevDir \o file

\* the two assignments that end take_reading
Humidity(d) ==
    [num |-> BitOr(Shl8(BitAnd(d[1], HumMask)), d[2]) * HumScale, den |-> HumDen]

\* the temperature assignment without the mask on data[3]
TemperatureUnmasked(d) ==
    [num |-> BitOr(Shl8(d[3]), d[4]) * TempScale - TempOffset * TempDen,
     den |-> TempDen]

Temperature(d) ==
    [num |-> BitOr(Shl8(d[3]), BitAnd(d[4], TempMask)) * TempScale - TempOffset * TempDen,
     den |-> TempDen]

Decode(d) == [humidity |-> Humidity(d), temperature |-> Temperature(d)]

\* order on the rationals, a and b with positive denominators
RatLeq(a, b) == a.num * b.den <= b.num * a.den
Rat(n) == [num |-> n, den |-> 1]

---------------------------------------------------------------------------
(* Inputs: option arguments and the environment *)

Bcm1 == <<"b","c","m",".","1">>
Bcm2 == <<"b","c","m",".","2">>
I2c0 == <<"i","2","c","-","0">>
I2c1 == <<"i","2","c","-","1">>
Hidden == <<".","."," ">>

\* arguments given to -b
BusNames == {Bcm1, Bcm2}

\* arguments given to -d
DevFiles == {DevPath(I2c1)}

\* arguments given to -a
AddrArgs ==
    { <<"0","x","2","8">>, <<"0","x","0","2">>, <<"0","x","7","8">>,
      <<"0","x","7","7">>, <<"3">>, <<"2">>, <<"1","2","0">>, <<"0","5","0">>,
      <<" ","4","0">>, <<"-","4","0">>, <<"0","x">>, <<"4","0","z">>,
      <<"z">>, <<>> }

\* arguments given to -i
IntervalArgs == { <<"0">>, <<"1">>, <<"-","1">>, <<"x">> }

\* contents of a bus's name file
NameContents ==
    { Bcm1, Bcm1 \o <<"\n">>, Bcm1 \o <<"0">>, Bcm1 \o <<"\n","\n">>,
      SubSeq(Bcm1, 1, 4), Bcm2, Bcm2 \o <<"\n">> }

DirNames == {Hidden, I2c0, I2c1}

DirEntries == [d_name : DirNames, content : NameContents]

\* directory listings of at most n entries, no name twice
RECURSIVE Listings(_)
Listings(n) ==
    IF n = 0 THEN {<<>>}
    ELSE LET shorter == Listings(n - 1)
         IN  shorter \cup
             { Append(l, e) : <<l, e>> \in
                 { p \in shorter \X DirEntries :
                     /\ Len(p[1]) = n - 1
                     /\ \A k \in 1..Len(p[1]) : p[1][k].d_name # p[2].d_name } }

Registries == Listings(MaxEntries)

\* the registry of the specification's example, and one with a hidden
\* entry and two buses of the same name
SampleRegistries ==
    { << [d_name |-> I2c0, content |-> Bcm2 \o <<"\n">>],
         [d_name |-> I2c1, content |-> Bcm1 \o <<"\n">>] >>,
      << [d_name |-> Hidden, content |-> Bcm1],
         [d_name |-> I2c1, content |-> Bcm1 \o <<"0">>],
         [d_name |-> I2c0, content |-> Bcm1] >> }

\* frames the sensor answers with
SampleFrames == { <<0, 0, 0, 0>>, <<192, 0, 0, 3>>, <<63, 255, 255, 252>> }

FrameBytes == {0, 1, 3, 4, 63, 64, 192, 252, 255}

AllFrames == FrameBytes \X FrameBytes \X FrameBytes \X FrameBytes

NoReading == [humidity |-> Rat(0), temperature |-> Rat(0)]

---------------------------------------------------------------------------
(* Initial states *)

InitWith(regs) ==
    /\ pc = "getopt"
    /\ fd = 0
    /\ interval = 0
    /\ ptemp = 0
    /\ phum = 0
    /\ slave = DefaultSlave
    /\ seenB = FALSE
    /\ seenD = FALSE
    /\ seenA = FALSE
    /\ aarg = <<>>
    /\ openFds \in {{0, 1, 2}, {1, 2}}     \* started with stdin open or closed
    /\ registry \in regs
    /\ want = <<>>
    /\ dirfd = -1
    /\ di = 0
    /\ sensor = <<0, 0, 0, 0>>
    /\ data = <<>>
    /\ r = NoReading
    /\ out = <<>>
    /\ iter = 0
    /\ trace = <<>>
    /\ exitCode = -1
    /\ msg = ""
    /\ usageShown = FALSE

Init == InitWith(SampleRegistries)

---------------------------------------------------------------------------
(* Process exit *)

Event(by, op, a, b, ret) == [by |-> by, op |-> op, a |-> a, b |-> b, ret |-> ret]

\* exit(1) after a message on standard error
Die(m) ==
    /\ pc' = "exited"
    /\ exitCode' = 1
    /\ msg' = m
    /\ usageShown' = FALSE

\* usage(): the usage text on standard output, exit(1)
Usage(m) ==
    /\ pc' = "exited"
    /\ exitCode' = 1
    /\ msg' = m
    /\ usageShown' = TRUE

Running == UNCHANGED <<exitCode, msg, usageShown>>

---------------------------------------------------------------------------
(* main: the getopt loop *)

OptH ==
    /\ pc = "getopt"
    /\ phum' = 1
    /\ UNCHANGED <<pc, fd, interval, ptemp, slave, seenB, seenD, seenA, aarg, openFds,
                   registry, want, dirfd, di, sensor, data, r, out, iter,
                   trace, exitCode, msg, usageShown>>

OptT ==
    /\ pc = "getopt"
    /\ ptemp' = 1
    /\ UNCHANGED <<pc, fd, interval, phum, slave, seenB, seenD, seenA, aarg, openFds,
                   registry, want, dirfd, di, sensor, data, r, out, iter,
                   trace, exitCode, msg, usageShown>>

\* case 'b', up to and including the opendir of open_i2c_bus
OptB(name) ==
    /\ pc = "getopt"
    /\ seenB' = TRUE
    /\ IF fd # 0
       THEN /\ Usage("Cannot use both -d and -b options")
            /\ UNCHANGED <<openFds, want, dirfd, di, trace>>
       ELSE \E ok \in BOOLEAN :
            IF ok
            THEN /\ dirfd' = LowestFree(openFds)
                 /\ openFds' = openFds \cup {dirfd'}
                 /\ want' = name
                 /\ di' = 0
                 /\ trace' = Append(trace, Event("open_i2c_bus", "opendir", SysDir, 0, dirfd'))
                 /\ pc' = "readdir"
                 /\ Running
            ELSE /\ trace' = Append(trace, Event("open_i2c_bus", "opendir", SysDir, 0, -1))
                 /\ Die("opening directory")
                 /\ UNCHANGED <<openFds, want, dirfd, di>>
    /\ UNCHANGED <<fd, interval, ptemp, phum, slave, seenD, seenA, aarg, registry, sensor,
                   data, r, out, iter>>

\* one pass of the for (;;) loop of open_i2c_bus
Readdir ==
    /\ pc = "readdir"
    /\ \E fault \in {"none", "readdir", "open_name", "read_name", "open_dev"} :
       LET e == registry[di + 1]
           nfd == LowestFree(openFds)
           rd == Event("open_i2c_bus", "readdir", dirfd, 0, 0)
           opn == Event("name_file_matches", "open", NameFilePath(e.d_name), "O_RDONLY", nfd)
           rdn == Event("name_file_matches", "read", nfd, Len(want) + 2,
                        Min(Len(e.content), Len(want) + 2))
           cln == Event("name_file_matches", "close", nfd, 0, 0)
           opd == Event("open_i2c_dev", "open", DevPath(e.d_name), "O_RDWR", nfd)
           cld == Event("open_i2c_bus", "closedir", dirfd, 0, 0)
       IN
       CASE fault = "readdir" ->
                /\ trace' = Append(trace, Event("open_i2c_bus", "readdir", dirfd, 0, -1))
                /\ Die("reading directory")
                /\ UNCHANGED <<fd, openFds, dirfd, di>>
         [] fault = "none" /\ di = Len(registry) ->
                /\ trace' = Append(trace, rd)
                /\ Die("could not find i2c bus")
                /\ UNCHANGED <<fd, openFds, dirfd, di>>
         [] fault = "none" /\ di < Len(registry) /\ e.d_name[1] = "." ->
                /\ trace' = Append(trace, rd)
                /\ di' = di + 1
                /\ UNCHANGED <<pc, fd, openFds, dirfd>>
                /\ Running
         [] fault = "open_name" /\ di < Len(registry) /\ e.d_name[1] # "." ->
                /\ trace' = trace \o <<rd, [opn EXCEPT !.ret = -1]>>
                /\ Die("opening name file")
                /\ UNCHANGED <<fd, openFds, dirfd, di>>
         [] fault = "read_name" /\ di < Len(registry) /\ e.d_name[1] # "." ->
                /\ trace' = trace \o <<rd, opn, [rdn EXCEPT !.ret = -1]>>
                /\ Die("reading name file")
                /\ UNCHANGED <<fd, openFds, dirfd, di>>
         [] /\ fault = "none"
            /\ di < Len(registry)
            /\ e.d_name[1] # "."
            /\ ~NameFileMatches(e.content, want) ->
                /\ trace' = trace \o <<rd, opn, rdn, cln>>
                /\ di' = di + 1
                /\ UNCHANGED <<pc, fd, openFds, dirfd>>
                /\ Running
         [] /\ fault = "none"
            /\ di < Len(registry)
            /\ e.d_name[1] # "."
            /\ NameFileMatches(e.content, want) ->
                /\ trace' = trace \o <<rd, opn, rdn, cln, opd, cld>>
                /\ fd' = nfd
                /\ openFds' = (openFds \cup {nfd}) \ {dirfd}
                /\ dirfd' = -1
                /\ di' = di + 1
                /\ pc' = "getopt"
                /\ Running
         [] /\ fault = "open_dev"
            /\ di < Len(registry)
            /\ e.d_name[1] # "."
            /\ NameFileMatches(e.content, want) ->
                /\ trace' = trace \o <<rd, opn, rdn, cln, [opd EXCEPT !.ret = -1]>>
                /\ Die("opening device")
                /\ UNCHANGED <<fd, openFds, dirfd, di>>
         [] OTHER -> FALSE
    /\ UNCHANGED <<interval, ptemp, phum, slave, seenB, seenD, seenA, aarg, registry, want,
                   sensor, data, r, out, iter>>

\* case 'd'
OptD(path) ==
    /\ pc = "getopt"
    /\ seenD' = TRUE
    /\ IF fd # 0
       THEN /\ Usage("Cannot use both -d and -b options")
            /\ UNCHANGED <<fd, openFds, trace>>
       ELSE \E ok \in BOOLEAN :
            IF ok
            THEN /\ fd' = LowestFree(openFds)
                 /\ openFds' = openFds \cup {fd'}
                 /\ trace' = Append(trace, Event("main", "open", path, "O_RDWR", fd'))
                 /\ UNCHANGED pc
                 /\ Running
            ELSE /\ fd' = -1
                 /\ trace' = Append(trace, Event("main", "open", path, "O_RDWR", -1))
                 /\ Die("opening device")
                 /\ UNCHANGED openFds
    /\ UNCHANGED <<interval, ptemp, phum, slave, seenB, seenA, aarg, registry, want, dirfd,
                   di, sensor, data, r, out, iter>>

\* case 'i'
OptI(s) ==
    /\ pc = "getopt"
    /\ interval' = Atoi(s)
    /\ UNCHANGED <<pc, fd, ptemp, phum, slave, seenB, seenD, seenA, aarg, openFds,
                   registry, want, dirfd, di, sensor, data, r, out, iter,
                   trace, exitCode, msg, usageShown>>

\* case 'a'
OptA(s) ==
    /\ pc = "getopt"
    /\ seenA' = TRUE
    /\ aarg' = s
    /\ LET p == ParseI2cSlaveAddress(s)
       IN  IF p.err # ""
           THEN Die(p.err) /\ UNCHANGED slave
           ELSE slave' = p.n /\ UNCHANGED pc /\ Running
    /\ UNCHANGED <<fd, interval, ptemp, phum, seenB, seenD, openFds,
                   registry, want, dirfd, di, sensor, data, r, out, iter, trace>>

\* case 'h'
OptHelp ==
    /\ pc = "getopt"
    /\ Usage("")
    /\ UNCHANGED <<fd, interval, ptemp, phum, slave, seenB, seenD, seenA, aarg, openFds,
                   registry, want, dirfd, di, sensor, data, r, out, iter, trace>>

\* getopt returned '?' (an unknown option or a missing argument): no case
OptUnknown ==
    /\ pc = "getopt"
    /\ UNCHANGED vars

\* getopt returned -1: the checks after the loop and the slave address bind
EndOfOptions(extra) ==
    /\ pc = "getopt"
    /\ IF extra
       THEN Usage("") /\ UNCHANGED <<ptemp, phum, trace>>
       ELSE IF fd = 0
       THEN /\ Usage("Either the -d or -b option must be present")
            /\ UNCHANGED <<ptemp, phum, trace>>
       ELSE /\ IF ptemp = 0 /\ phum = 0
               THEN ptemp' = 1 /\ phum' = 1
               ELSE UNCHANGED <<ptemp, phum>>
            /\ \E ok \in BOOLEAN :
               IF ok
               THEN /\ trace' = Append(trace, Event("main", "ioctl", fd, slave, 0))
                    /\ pc' = "write"
                    /\ Running
               ELSE /\ trace' = Append(trace, Event("main", "ioctl", fd, slave, -1))
                    /\ Die("ioctl(I2C_SLAVE)")
    /\ UNCHANGED <<fd, interval, slave, seenB, seenD, seenA, aarg, openFds, registry, want,
                   dirfd, di, sensor, data, r, out, iter>>

---------------------------------------------------------------------------
(* take_reading and the polling loop *)

\* data[0] = 0; write(fd, data, 1) and its check.  The sensor starts a
\* measurement: frames is what it may hold afterwards.
Write(frames) ==
    /\ pc = "write"
    /\ iter' = iter + 1
    /\ sensor' \in frames
    /\ \E sz \in {-1, 0, 1} :
       /\ trace' = Append(trace, Event("take_reading", "write", fd, <<0>>, sz))
       /\ IF sz < 0
          THEN Die("writing to i2c")
          ELSE pc' = "usleep" /\ Running
    /\ UNCHANGED <<fd, interval, ptemp, phum, slave, seenB, seenD, seenA, aarg, openFds,
                   registry, want, dirfd, di, data, r, out>>

\* take_reading without the settling delay
UsleepSkipped ==
    /\ pc = "usleep"
    /\ pc' = "read"
    /\ UNCHANGED <<fd, interval, ptemp, phum, slave, seenB, seenD, seenA, aarg,
                   openFds, registry, want, dirfd, di, sensor, data, r, out,
                   iter, trace, exitCode, msg, usageShown>>

\* usleep(60 * 1000)
Usleep ==
    /\ pc = "usleep"
    /\ trace' = Append(trace, Event("take_reading", "usleep", SettleMicros, 0, 0))
    /\ pc' = "read"
    /\ UNCHANGED <<fd, interval, ptemp, phum, slave, seenB, seenD, seenA, aarg, openFds,
                   registry, want, dirfd, di, sensor, data, r, out, iter,
                   exitCode, msg, usageShown>>

\* take_reading without the sz < 4 test: a short read is decoded, its
\* missing bytes taken as zero
ReadIgnoringShort ==
    /\ pc = "read"
    /\ \E sz \in -1..FrameLen :
       /\ trace' = Append(trace, Event("take_reading", "read", fd, FrameLen, sz))
       /\ IF sz < 0
          THEN Die("reading from i2c") /\ UNCHANGED <<data, r>>
          ELSE /\ data' = [k \in 1..FrameLen |-> IF k <= sz THEN sensor[k] ELSE 0]
               /\ r' = Decode(data')
               /\ pc' = "print"
               /\ Running
    /\ UNCHANGED <<fd, interval, ptemp, phum, slave, seenB, seenD, seenA, aarg,
                   openFds, registry, want, dirfd, di, sensor, out, iter>>

\* read(fd, data, 4), its checks and the decoding
Read ==
    /\ pc = "read"
    /\ \E sz \in -1..FrameLen :
       /\ trace' = Append(trace, Event("take_reading", "read", fd, FrameLen, sz))
       /\ IF sz < 0
          THEN Die("reading from i2c") /\ UNCHANGED <<data, r>>
          ELSE IF sz < FrameLen
          THEN /\ pc' = "exited"
               /\ exitCode' = 1
               /\ msg' = "short read"
               /\ usageShown' = FALSE
               /\ data' = SubSeq(sensor, 1, sz)
               /\ UNCHANGED r
          ELSE /\ data' = sensor
               /\ r' = Decode(data')
               /\ pc' = "print"
               /\ Running
    /\ UNCHANGED <<fd, interval, ptemp, phum, slave, seenB, seenD, seenA, aarg, openFds,
                   registry, want, dirfd, di, sensor, out, iter>>

\* the printf calls of the loop body: one line
PrintReading ==
    /\ pc = "print"
    /\ out' = Append(out, (IF phum # 0 THEN <<r.humidity>> ELSE <<>>)
                            \o (IF ptemp # 0 THEN <<r.temperature>> ELSE <<>>))
    /\ pc' = "sleep"
    /\ UNCHANGED <<fd, interval, ptemp, phum, slave, seenB, seenD, seenA, aarg, openFds,
                   registry, want, dirfd, di, sensor, data, r, iter, trace,
                   exitCode, msg, usageShown>>

\* the loop of main with the condition interval >= 0
SleepWhileNotNegative ==
    /\ pc = "sleep"
    /\ IF interval >= 0
       THEN /\ iter < MaxIter
            /\ trace' = Append(trace, Event("main", "sleep", interval, 0, 0))
            /\ pc' = "write"
            /\ UNCHANGED <<openFds, exitCode>>
       ELSE /\ trace' = trace \o << Event("main", "sleep", interval, 0, 0),
                                    Event("main", "close", fd, 0, 0) >>
            /\ openFds' = openFds \ {fd}
            /\ pc' = "exited"
            /\ exitCode' = 0
    /\ UNCHANGED <<fd, interval, ptemp, phum, slave, seenB, seenD, seenA, aarg,
                   registry, want, dirfd, di, sensor, data, r, out, iter, msg,
                   usageShown>>

\* sleep(interval), the loop condition, and close and return 0 when it fails
Sleep ==
    /\ pc = "sleep"
    /\ IF interval > 0
       THEN /\ iter < MaxIter
            /\ trace' = Append(trace, Event("main", "sleep", interval, 0, 0))
            /\ pc' = "write"
            /\ UNCHANGED <<openFds, exitCode>>
       ELSE /\ trace' = trace \o << Event("main", "sleep", interval, 0, 0),
                                    Event("main", "close", fd, 0, 0) >>
            /\ openFds' = openFds \ {fd}
            /\ pc' = "exited"
            /\ exitCode' = 0
    /\ UNCHANGED <<fd, interval, ptemp, phum, slave, seenB, seenD, seenA, aarg, registry,
                   want, dirfd, di, sensor, data, r, out, iter, msg, usageShown>>

---------------------------------------------------------------------------
(* Specifications *)

Next ==
    \/ OptH
    \/ OptT
    \/ \E name \in BusNames : OptB(name)
    \/ Readdir
    \/ \E path \in DevFiles : OptD(path)
    \/ \E s \in IntervalArgs : OptI(s)
    \/ \E s \in AddrArgs : OptA(s)
    \/ OptHelp
    \/ OptUnknown
    \/ \E extra \in BOOLEAN : EndOfOptions(extra)
    \/ Write(SampleFrames)
    \/ Usleep
    \/ Read
    \/ PrintReading
    \/ Sleep

\* every command line, the sample registries and frames
Spec == Init /\ [][Next]_vars

\* the same under the scheduling of a sequential program: a step that can
\* be taken is taken
FairSpec == Init /\ [][Next]_vars /\ WF_vars(Next)

\* command lines that start with -b, every registry of at most MaxEntries
\* entries, up to the return of open_i2c_bus
LocateInit == InitWith(Registries)

LocateNext ==
    \/ \E name \in BusNames : OptB(name)
    \/ Readdir

LocateSpec == LocateInit /\ [][LocateNext]_vars

\* command lines of -d options alone, one transaction, every frame of
\* AllFrames
DecodeNext ==
    \/ \E path \in DevFiles : OptD(path)
    \/ \E extra \in BOOLEAN : EndOfOptions(extra)
    \/ Write(AllFrames)
    \/ Usleep
    \/ Read

DecodeSpec == Init /\ [][DecodeNext]_vars

---------------------------------------------------------------------------
(* Properties *)

\* the system calls of take_reading, in order
Transactions == SelectSeq(trace, LAMBDA e : e.by = "take_reading")

\* the opens of a device node
DeviceOpens == SelectSeq(trace, LAMBDA e : e.op = "open" /\ e.b = "O_RDWR")

Ioctls == SelectSeq(trace, LAMBDA e : e.op = "ioctl")

BothMessage == "Cannot use both -d and -b options"
EitherMessage == "Either the -d or -b option must be present"

\* C1: once getopt has returned both a -b and a -d option the run has ended
\* in the usage error "Cannot use both -d and -b options" with exit status
\* 1, and no system call on the registry or on a device was issued.
\* Stated for the runs in which the descriptor held is not 0, the value
\* main takes for "no -b or -d yet" (C10 is about that one).
C1_BothIsUsageErrorBeforeAnyIO ==
    (seenB /\ seenD /\ fd # 0) =>
        /\ pc = "exited"
        /\ exitCode = 1
        /\ usageShown
        /\ msg = BothMessage
        /\ trace = <<>>

\* C2: a write of the start byte that returns less than 1 is the last
\* system call of the run, which has exited with status 1 (no usleep, no
\* read, no line printed for it).
C2_ShortWriteIsFatal ==
    \A i \in 1..Len(trace) :
        (trace[i].by = "take_reading" /\ trace[i].op = "write" /\ trace[i].ret < 1) =>
            /\ i = Len(trace)
            /\ pc = "exited"
            /\ exitCode = 1

\* C3: the system calls of take_reading are, in every iteration, a write of
\* one zero byte, a usleep of 60000 microseconds and a read of 4 bytes on
\* the handle, in this order; a write after the first follows a read that
\* returned the 4 bytes; and there is one write per iteration.
C3_WriteDelayReadOrder ==
    LET t == Transactions
    IN  /\ \A i \in 1..Len(t) :
            /\ (i % 3 = 1) =>
                  /\ t[i].op = "write"
                  /\ t[i].a = fd
                  /\ t[i].b = <<0>>
                  /\ (i > 1 => t[i-1].op = "read" /\ t[i-1].ret = 4)
            /\ (i % 3 = 2) => (t[i].op = "usleep" /\ t[i].a = 60000)
            /\ (i % 3 = 0) => (t[i].op = "read" /\ t[i].a = fd /\ t[i].b = 4)
        /\ Len(SelectSeq(t, LAMBDA e : e.op = "write")) = iter
        /\ Len(t) <= 3 * iter

C3_Witness ==
    /\ Len(Transactions) = 6
    /\ Transactions[6].op = "read"
    /\ Transactions[6].ret = 4

\* C4: a read of take_reading that returns 0 to 3 bytes is the last system
\* call of the run: the process has exited with status 1 and the message
\* "short read", the lines printed are those of the earlier iterations, and
\* the step of the short read leaves the reading and the output as they
\* were.
C4_ShortReadIsFatal ==
    /\ [](\A i \in 1..Len(trace) :
            (trace[i].by = "take_reading" /\ trace[i].op = "read"
                /\ trace[i].ret \in 0..3) =>
                /\ i = Len(trace)
                /\ pc = "exited"
                /\ exitCode = 1
                /\ msg = "short read"
                /\ Len(out) = iter - 1)
    /\ [][(/\ pc = "read"
           /\ Len(trace') = Len(trace) + 1
           /\ trace'[Len(trace')].ret \in 0..3)
          => (r' = r /\ out' = out /\ pc' = "exited")]_vars

C4_Witness ==
    /\ Len(trace) > 0
    /\ trace[Len(trace)].by = "take_reading"
    /\ trace[Len(trace)].op = "read"
    /\ trace[Len(trace)].ret = 2
    /\ iter = 2

\* C5: the process exits with status 0 only with an interval that is not
\* positive, after exactly one iteration and one line; from a completed
\* read with such an interval it does exit with status 0; with a positive
\* interval the sleep is followed by the next iteration, and every
\* iteration that was completed printed its line.
C5_IterationsByInterval ==
    /\ [](exitCode = 0 => (interval <= 0 /\ iter = 1 /\ Len(out) = 1))
    /\ [](pc = "write" /\ iter >= 1 => (interval > 0 /\ Len(out) = iter))
    /\ [][(pc = "sleep" /\ interval > 0) => pc' = "write"]_vars
    /\ ((pc = "print" /\ interval <= 0) ~> (pc = "exited" /\ exitCode = 0))

C5_Witness ==
    /\ exitCode = 0
    /\ interval < 0
    /\ Len(out) = 1

\* what each argument of AddrArgs is as a C integer literal: ok is whether
\* the whole argument is a number, n the number
AddrMeaning(s) ==
    CASE s = <<"0","x","2","8">> -> [ok |-> TRUE, n |-> 40]
      [] s = <<"0","x","0","2">> -> [ok |-> TRUE, n |-> 2]
      [] s = <<"0","x","7","8">> -> [ok |-> TRUE, n |-> 120]
      [] s = <<"0","x","7","7">> -> [ok |-> TRUE, n |-> 119]
      [] s = <<"3">> -> [ok |-> TRUE, n |-> 3]
      [] s = <<"2">> -> [ok |-> TRUE, n |-> 2]
      [] s = <<"1","2","0">> -> [ok |-> TRUE, n |-> 120]
      [] s = <<"0","5","0">> -> [ok |-> TRUE, n |-> 40]
      [] s = <<" ","4","0">> -> [ok |-> TRUE, n |-> 40]
      [] s = <<"-","4","0">> -> [ok |-> TRUE, n |-> 0 - 40]
      [] OTHER -> [ok |-> FALSE, n |-> 0]

\* C6: every ioctl(I2C_SLAVE) carries an address in 0x03..0x77, the one
\* the last -a argument denotes or 0x28 without -a; after a -a argument
\* that is no number or denotes a value outside 0x03..0x77 the process has
\* exited with status 1 without an ioctl and without a transaction.
C6_BindOnlyLegalAddress ==
    LET m == AddrMeaning(aarg)
    IN  /\ \A i \in 1..Len(Ioctls) :
            /\ Ioctls[i].b \in 3..119
            /\ Ioctls[i].b = (IF seenA THEN m.n ELSE 40)
        /\ (seenA /\ (~m.ok \/ m.n < 3 \/ m.n > 119)) =>
            /\ pc = "exited"
            /\ exitCode = 1
            /\ Ioctls = <<>>
            /\ Transactions = <<>>
        /\ (seenA /\ aarg = <<"0","x","2","8">>) => slave = 40
        /\ ~seenA => slave = 40

C6_Witness ==
    /\ seenA
    /\ aarg = <<"0","x","7","7">>
    /\ Len(Ioctls) = 1
    /\ Ioctls[1].b = 119

\* C7: a reading decoded from the frame of a transaction whose write
\* transferred the start byte has 0 <= humidity <= 100 and
\* -40 <= temperature <= 120.
C7_ReadingInRange ==
    (/\ pc = "print"
     /\ Transactions[Len(Transactions) - 2].ret = 1) =>
        /\ RatLeq(Rat(0), r.humidity)
        /\ RatLeq(r.humidity, Rat(100))
        /\ RatLeq(Rat(0 - 40), r.temperature)
        /\ RatLeq(r.temperature, Rat(120))

\* frame d with the top two bits of byte 0 set to s0 and the bottom two
\* bits of byte 3 set to s3
WithStatus(d, s0, s3) ==
    <<(d[1] % 64) + 64 * s0, d[2], d[3], (d[4] - (d[4] % 4)) + s3>>

\* C8: the reading decoded from a frame is the reading of every frame that
\* differs from it in the status bits alone; the frame C0 00 00 03 decodes
\* to humidity 0 and temperature -40.
C8_StatusBitsIgnored ==
    pc = "print" =>
        /\ \A s0 \in 0..3 : \A s3 \in 0..3 : Decode(WithStatus(data, s0, s3)) = r
        /\ (data = <<192, 0, 0, 3>> =>
                /\ r.humidity.num = 0
                /\ r.temperature.num = (0 - 40) * r.temperature.den)

C8_Witness ==
    /\ pc = "print"
    /\ data = <<192, 0, 0, 3>>

\* an entry that names the bus: not hidden, its name file the name or the
\* name and one newline
NamesBus(e, name) ==
    /\ e.d_name[1] # "."
    /\ (e.content = name \/ e.content = name \o <<"\n">>)

\* position of the first such entry, 0 when there is none
FirstMatch(reg, name) ==
    IF \E k \in 1..Len(reg) : NamesBus(reg[k], name)
    THEN CHOOSE k \in 1..Len(reg) :
            NamesBus(reg[k], name) /\ \A j \in 1..(k-1) : ~NamesBus(reg[j], name)
    ELSE 0

\* C9: the locator opens at most one device node, that of the first entry
\* naming the bus; when it returns, readdir has returned the entries up to
\* that one and no more, and the descriptor returned is that of the open;
\* when no entry names the bus the process exits with status 1 after the
\* whole enumeration without opening a device node.
C9_LocatorOpensFirstMatch ==
    LET k == FirstMatch(registry, want)
    IN  /\ Len(DeviceOpens) <= 1
        /\ \A i \in 1..Len(DeviceOpens) :
            /\ k # 0
            /\ DeviceOpens[i].a = DevPath(registry[k].d_name)
        /\ (pc = "getopt" /\ seenB) =>
            /\ Len(DeviceOpens) = 1
            /\ DeviceOpens[1].ret = fd
            /\ di = k
        /\ (pc = "readdir") => (k = 0 \/ di < k)
        /\ (msg = "could not find i2c bus") =>
            /\ k = 0
            /\ exitCode = 1
            /\ DeviceOpens = <<>>
            /\ di = Len(registry)

C9_Witness ==
    /\ pc = "getopt"
    /\ seenB
    /\ want = Bcm1
    /\ Len(registry) = 2
    /\ registry[1].d_name = I2c0
    /\ registry[1].content = Bcm1 \o <<"0">>
    /\ registry[2].content = Bcm1 \o <<"\n">>
    /\ fd = 3

\* C10: the usage error "Either the -d or -b option must be present" is
\* never given in a run in which an open of a device node succeeded.
C10_OpenedRunNotRejected ==
    (msg = EitherMessage) =>
        \A i \in 1..Len(DeviceOpens) : DeviceOpens[i].ret < 0

===========================================================================
